---- MODULE Spec2Model ----
(***************************************************************************)
(* Model of the run-submission handler of pb-tracker (src/submit.py):      *)
(* Submit.get and Submit.post, the validation sequence of Submit.post and  *)
(* the collaborators it calls (util.get_code, util.timestr_to_seconds,     *)
(* util.seconds_to_timestr, util.datestr_to_date, RunHandler.put_new_run,  *)
(* RunHandler.put_existing_run, Handler.get_game_model).                   *)
(*                                                                         *)
(* Optional values (Python's None) are sequences of length at most one:    *)
(* None is << >>, a present value v is << v >>.                            *)
(* Text is run-length encoded: a sequence of runs [c |-> char, n |-> k].   *)
(***************************************************************************)
EXTENDS Integers, Sequences, FiniteSets, TLC

VARIABLES
    catalog,   \* the Games entities: a set of [code, game, info]
    runs,      \* the Runs entities, a run's id is its index
    req,       \* the request being served
    params,    \* the draft the handler built for it, None before and without one
    resp,      \* the response
    calls,     \* the collaborators the handler called while serving it
    pc,        \* "pending" until the handler has run, then "done"
    prev,      \* the draft a resubmission was copied from, else None
    inflight   \* concurrent POSTs: per request its position and locals

vars == <<catalog, runs, req, params, resp, calls, pc, prev, inflight>>

None == << >>

Some(v) == << v >>

\* ------------------------------------------------------------------ text

Run(c, n) == [c |-> c, n |-> n]

Str1(c) == << Run(c, 1) >>

Str2(c, d) == << Run(c, 1), Run(d, 1) >>

Rep(c, n) == << Run(c, n) >>

Empty == << >>

RECURSIVE StrLen(_)
StrLen(s) == IF s = << >> THEN 0 ELSE Head(s).n + StrLen(Tail(s))

UpperChars == {"A", "B", "D"}

LowerChars == {"a", "b", "c", "d"}

\* the punctuation of GAME_CATEGORY_RE that the inputs use
PunctChars == {"!", " "}

\* a character outside GAME_CATEGORY_RE's class
FunnyChars == {"^"}

IsAlnum(c) == c \in UpperChars \cup LowerChars

ToLower(c) ==
    CASE c = "A" -> "a"
      [] c = "B" -> "b"
      [] c = "D" -> "d"
      [] OTHER -> c

\* appends one run to a run-length encoded text, merging equal neighbours
AppendRun(s, r) ==
    IF s # << >> /\ s[Len(s)].c = r.c
    THEN [s EXCEPT ![Len(s)] = Run(r.c, s[Len(s)].n + r.n)]
    ELSE Append(s, r)

\* the length bounds of GAME_CATEGORY_RE, {1,100}
NameMinLen == 1

NameMaxLen == 100

\* src/submit.py:212
NotesMaxLen == 140

\* GAME_CATEGORY_RE.match: every character in the class, 1 to 100 of them
valid_game_or_category(s) ==
    /\ \A i \in 1..Len(s) : s[i].c \in UpperChars \cup LowerChars \cup PunctChars
    /\ StrLen(s) >= NameMinLen
    /\ StrLen(s) <= NameMaxLen

\* util.get_code: drop what is not a letter or digit, lower-case the rest
RECURSIVE get_code(_)
get_code(s) ==
    IF s = << >> THEN << >>
    ELSE LET init == get_code(SubSeq(s, 1, Len(s) - 1))
             r    == s[Len(s)]
         IN  IF IsAlnum(r.c) THEN AppendRun(init, Run(ToLower(r.c), r.n)) ELSE init

\* ------------------------------------------------------------------ time

\* A time string is its ':'-separated fields; a field is the number it spells
\* and the digits it is spelled with, or NotANumber.
Field(v, w) == [v |-> v, w |-> w]

NotANumber == Field(-1, 1)

Digits(n) == IF n < 10 THEN 1 ELSE IF n < 100 THEN 2 ELSE 3

\* util.timestr_to_seconds: [[hours:]minutes:]seconds -> (seconds, error)
timestr_to_seconds(t) ==
    IF Len(t) = 0 \/ Len(t) > 3 THEN [seconds |-> None, error |-> "format"]
    ELSE IF \E i \in 1..Len(t) : t[i].v < 0 THEN [seconds |-> None, error |-> "number"]
    ELSE IF t[Len(t)].v >= 60 THEN [seconds |-> None, error |-> "seconds"]
    ELSE IF Len(t) >= 2 /\ t[Len(t) - 1].v >= 60 THEN [seconds |-> None, error |-> "minutes"]
    ELSE LET s == t[Len(t)].v
             m == IF Len(t) >= 2 THEN t[Len(t) - 1].v ELSE 0
             h == IF Len(t) = 3 THEN t[1].v ELSE 0
         IN  [seconds |-> Some(3600 * h + 60 * m + s), error |-> "none"]

\* util.seconds_to_timestr: h:mm:ss, or m:ss under an hour
seconds_to_timestr(n) ==
    LET s == n % 60
        m == (n \div 60) % 60
        h == n \div 3600
    IN  IF h > 0
        THEN << Field(h, Digits(h)), Field(m, 2), Field(s, 2) >>
        ELSE << Field(m, Digits(m)), Field(s, 2) >>

\* A date string is << >> (left empty) or << month, day, year >>.
\* util.datestr_to_date -> (date, error)
datestr_to_date(d) ==
    IF d = << >> THEN [date |-> None, error |-> None]
    ELSE IF d[1] \in 1..12 /\ d[2] \in 1..31
         THEN [date |-> Some(d), error |-> None]
         ELSE [date |-> None, error |-> Some("format")]

\* Python 2 orders None below every number
PyLess(a, b) == IF a = None THEN b # None ELSE IF b = None THEN FALSE ELSE a[1] < b[1]

PyLessEq(a, b) == IF a = None THEN TRUE ELSE IF b = None THEN FALSE ELSE a[1] <= b[1]

\* ------------------------------------------------------------ catalog

\* Handler.get_game_model: the Games entity stored under the code, if any
get_game_model(cat, code) ==
    IF \E e \in cat : e.code = code
    THEN Some(CHOOSE e \in cat : e.code = code)
    ELSE None

\* the first of the matching indices of a list, 0 when none matches
\* (a for loop that breaks at its first match)
FirstIndex(matching) ==
    IF matching = {} THEN 0 ELSE CHOOSE i \in matching : \A j \in matching : i <= j

\* the indices of the list of categories whose display name is the given one
NamedAs(infos, category) == {i \in 1..Len(infos) : infos[i].category = category}

\* the indices of the list of categories whose code is the given one
CodedAs(infos, code) == {i \in 1..Len(infos) : get_code(infos[i].category) = code}

\* ---------------------------------------------------- Submit.post checks

\* src/submit.py:110-123: the game's error and the game name kept in the draft
GameCheck(game, game_code, game_model) ==
    IF game_code = Empty
    THEN [error |-> "blank", game |-> game]
    ELSE IF game_model # None /\ game # game_model[1].game
    THEN [error |-> "collision", game |-> game_model[1].game]
    ELSE IF ~valid_game_or_category(game)
    THEN [error |-> "invalid", game |-> game]
    ELSE [error |-> "none", game |-> game]

\* the catalog's categories compared by display name, not by code
CategoryCheck_ByName(category, category_code, game_model) ==
    LET i == IF category_code # Empty /\ game_model # None
             THEN FirstIndex(NamedAs(game_model[1].info, category))
             ELSE 0
        found == i # 0
        first ==
            IF category_code = Empty
            THEN [error |-> "blank", category |-> category]
            ELSE [error |-> "none", category |-> category]
    IN  IF ~found /\ ~valid_game_or_category(category)
        THEN [error |-> "invalid", category |-> first.category, found |-> found]
        ELSE [error |-> first.error, category |-> first.category, found |-> found]

\* src/submit.py:128-153: the category's error, the category kept in the draft
\* and category_found
CategoryCheck(category, category_code, game_model) ==
    LET i == IF category_code # Empty /\ game_model # None
             THEN FirstIndex(CodedAs(game_model[1].info, category_code))
             ELSE 0
        found == i # 0
        first ==
            IF category_code = Empty
            THEN [error |-> "blank", category |-> category]
            ELSE IF found /\ category # game_model[1].info[i].category
            THEN [error |-> "collision", category |-> game_model[1].info[i].category]
            ELSE [error |-> "none", category |-> category]
    IN  IF ~found /\ ~valid_game_or_category(category)
        THEN [error |-> "invalid", category |-> first.category, found |-> found]
        ELSE [error |-> first.error, category |-> first.category, found |-> found]

\* src/submit.py:156-164: seconds is the local the later checks compare
TimeCheck(time) ==
    LET r == timestr_to_seconds(time)
    IN  IF r.seconds = None
        THEN [error |-> r.error, time |-> time, seconds |-> None, param |-> -1]
        ELSE [error |-> "none", time |-> seconds_to_timestr(r.seconds[1]),
              seconds |-> r.seconds, param |-> r.seconds[1]]

\* src/submit.py:167-171
DateCheck(datestr) ==
    LET r == datestr_to_date(datestr)
    IN  IF r.error # None
        THEN [date |-> r.date, error |-> r.error[1]]
        ELSE [date |-> r.date, error |-> "none"]

\* a time equal to the recorded one passes as beating it
BktClaimCheck_Strict(is_bkt, game_model, category, seconds) ==
    LET i == IF is_bkt /\ game_model # None
             THEN FirstIndex(NamedAs(game_model[1].info, category))
             ELSE 0
    IN  i # 0 /\ game_model[1].info[i].bk_seconds # None
              /\ PyLess(game_model[1].info[i].bk_seconds, seconds)

\* src/submit.py:175-190: a claimed best known time must beat the recorded one
BktClaimCheck(is_bkt, game_model, category, seconds) ==
    LET i == IF is_bkt /\ game_model # None
             THEN FirstIndex(NamedAs(game_model[1].info, category))
             ELSE 0
    IN  i # 0 /\ game_model[1].info[i].bk_seconds # None
              /\ PyLessEq(game_model[1].info[i].bk_seconds, seconds)

\* the break one level out: only the catalog's first category is looked at
BktNoClaimCheck_FirstOnly(is_bkt, game_model, category, seconds) ==
    LET i == IF ~is_bkt /\ game_model # None /\ game_model[1].info # << >>
                /\ game_model[1].info[1].category = category
             THEN 1
             ELSE 0
    IN  i # 0 /\ game_model[1].info[i].bk_seconds # None
              /\ PyLess(seconds, game_model[1].info[i].bk_seconds)

\* src/submit.py:194-209: an unclaimed time must not beat the recorded one
BktNoClaimCheck(is_bkt, game_model, category, seconds) ==
    LET i == IF ~is_bkt /\ game_model # None
             THEN FirstIndex(NamedAs(game_model[1].info, category))
             ELSE 0
    IN  i # 0 /\ game_model[1].info[i].bk_seconds # None
              /\ PyLess(seconds, game_model[1].info[i].bk_seconds)

\* src/submit.py:212-214
NotesCheck(notes) == IF StrLen(notes) > NotesMaxLen THEN "too_long" ELSE "none"

\* a date error that leaves valid as it was
IsValid_NoDate(game_error, category_error, time_error, date_error, notBeat, beats, notes_error) ==
    /\ game_error = "none"
    /\ category_error = "none"
    /\ time_error = "none"
    /\ ~notBeat
    /\ ~beats
    /\ notes_error = "none"

\* src/submit.py:105-216: valid starts True and every error sets it False
IsValid(game_error, category_error, time_error, date_error, notBeat, beats, notes_error) ==
    /\ game_error = "none"
    /\ category_error = "none"
    /\ time_error = "none"
    /\ date_error = "none"
    /\ ~notBeat
    /\ ~beats
    /\ notes_error = "none"

\* src/submit.py:86-216: the draft (params) Submit.post hands to the run store,
\* given the game model that get_game_model returned at line 109.
\* video and version are copied through unread and are left out.
ValidateWith(r, game_model) ==
    LET game_code     == get_code(r.game)
        g             == GameCheck(r.game, game_code, game_model)
        category_code == get_code(r.category)
        c             == CategoryCheck(r.category, category_code, game_model)
        t             == TimeCheck(r.time)
        d             == DateCheck(r.datestr)
        notBeat       == BktClaimCheck(r.is_bkt, game_model, c.category, t.seconds)
        beats         == BktNoClaimCheck(r.is_bkt, game_model, c.category, t.seconds)
        n             == NotesCheck(r.notes)
    IN  [user           |-> r.user,
         game           |-> g.game,
         category       |-> c.category,
         time           |-> t.time,
         datestr        |-> r.datestr,
         notes          |-> r.notes,
         run_id         |-> r.run_id,
         is_bkt         |-> IF beats THEN TRUE ELSE IF notBeat THEN FALSE ELSE r.is_bkt,
         game_error     |-> g.error,
         game_code      |-> game_code,
         game_model     |-> game_model,
         category_error |-> c.error,
         category_found |-> c.found,
         time_error     |-> t.error,
         seconds        |-> t.param,
         date           |-> d.date,
         date_error     |-> d.error,
         bkt_error      |-> IF beats THEN "beats" ELSE IF notBeat THEN "not_beat" ELSE "none",
         notes_error    |-> n,
         valid          |-> IsValid(g.error, c.error, t.error, d.error,
                                    notBeat, beats, n)]

Validate(r, cat) == ValidateWith(r, get_game_model(cat, get_code(r.game)))

\* ------------------------------------------------------------ run store

\* Handler.get_run_by_id
get_run_by_id(rs, id) == IF id \in 1..Len(rs) THEN Some(rs[id]) ELSE None

\* Handler.get_last_run: the latest run of the user, if any
get_last_run(rs, username) ==
    IF \E i \in 1..Len(rs) : rs[i].username = username
    THEN Some(rs[CHOOSE i \in 1..Len(rs) :
                    /\ rs[i].username = username
                    /\ \A j \in (i + 1)..Len(rs) : rs[j].username # username])
    ELSE None

\* src/submit.py:48: who may edit a run
MayEdit(user, run) == user.is_mod \/ user.username = run.username

\* the run a valid draft describes
RunOf(p, username) ==
    [username |-> username, game |-> p.game, category |-> p.category,
     seconds |-> p.seconds, date |-> p.date, notes |-> p.notes, is_bkt |-> p.is_bkt]

\* the catalog after a valid draft is stored: a new game or category enters with
\* this run as its first best known time, a confirmed best known time replaces
\* the recorded one
UpdateCatalog(cat, p) ==
    LET gm      == p.game_model
        who     == p.user[1].username
        newinfo == [category |-> p.category, bk_seconds |-> Some(p.seconds),
                    bk_runner |-> Some(who)]
    IN  IF gm = None
        THEN cat \cup {[code |-> p.game_code, game |-> p.game, info |-> << newinfo >>]}
        ELSE LET others == {e \in cat : e.code # p.game_code}
             IN  IF ~p.category_found
                 THEN others \cup {[gm[1] EXCEPT !.info = Append(@, newinfo)]}
                 ELSE IF p.is_bkt
                 THEN others \cup {[gm[1] EXCEPT !.info =
                         [i \in 1..Len(@) |->
                             IF @[i].category = p.category THEN newinfo ELSE @[i]]]}
                 ELSE cat

\* RunHandler.put_new_run: stores the run of a valid draft
put_new_run(p, cat, rs) ==
    IF ~p.valid
    THEN [success |-> FALSE, catalog |-> cat, runs |-> rs]
    ELSE [success |-> TRUE, catalog |-> UpdateCatalog(cat, p),
          runs |-> Append(rs, RunOf(p, p.user[1].username))]

\* RunHandler.put_existing_run: loads the run, authorizes the editor, stores
\* the valid draft over it
put_existing_run(p, cat, rs) ==
    LET run == get_run_by_id(rs, p.run_id[1])
    IN  IF run = None \/ (~p.user[1].is_mod /\ p.user[1].username # run[1].username)
                      \/ ~p.valid
        THEN [success |-> FALSE, catalog |-> cat, runs |-> rs]
        ELSE [success |-> TRUE, catalog |-> UpdateCatalog(cat, p),
              runs |-> [rs EXCEPT ![p.run_id[1]] = RunOf(p, run[1].username)]]

\* --------------------------------------------------------------- handlers

\* the user checked only after the game model was looked up
AnonymousOutcome_LookupFirst(cat, rs) ==
    [params |-> None, resp |-> "redirect:/", calls |-> {"get_user", "get_game_model"},
     catalog |-> cat, runs |-> rs]

\* src/submit.py:36-39 and 81-84: no user, redirect and return
AnonymousOutcome(cat, rs) ==
    [params |-> None, resp |-> "redirect:/", calls |-> {"get_user"},
     catalog |-> cat, runs |-> rs]

\* the redirect taken whatever the run store answered
Respond_AlwaysRedirect(success) == "redirect:/runner"

\* src/submit.py:222-229
Respond(success) == IF success THEN "redirect:/runner" ELSE "render:submit.html"

\* src/submit.py:218-221: the run store call of a draft
Store(p, cat, rs) ==
    IF p.run_id # None
    THEN [put |-> "put_existing_run", out |-> put_existing_run(p, cat, rs)]
    ELSE [put |-> "put_new_run", out |-> put_new_run(p, cat, rs)]

\* src/submit.py:80-229: Submit.post
PostOutcome(r, cat, rs) ==
    IF r.user = None
    THEN AnonymousOutcome(cat, rs)
    ELSE LET p == Validate(r, cat)
             s == Store(p, cat, rs)
         IN  [params  |-> Some(p),
              resp    |-> Respond(s.out.success),
              calls   |-> {"get_user", "get_game_model", s.put}
                            \cup (IF s.out.success THEN {} ELSE {"get_categories"}),
              catalog |-> s.out.catalog,
              runs    |-> s.out.runs]

\* src/submit.py:52-63: the form's fields, filled from the run to edit
EditDraft(user, run_id, run) ==
    [user |-> user, game |-> run.game, category |-> run.category,
     time |-> seconds_to_timestr(run.seconds), date |-> run.date,
     run_id |-> run_id, notes |-> run.notes]

\* src/submit.py:67-73: the form's fields, started from the user's last run
NewDraft(user, last) ==
    IF last = None
    THEN [user |-> user, set_date_to_today |-> TRUE]
    ELSE [user |-> user, set_date_to_today |-> TRUE,
          game |-> last[1].game, category |-> last[1].category]

\* src/submit.py:35-78: Submit.get
GetOutcome(r, cat, rs) ==
    IF r.user = None
    THEN AnonymousOutcome(cat, rs)
    ELSE IF r.run_id # None
    THEN LET run == get_run_by_id(rs, r.run_id[1])
         IN  IF run = None \/ ~MayEdit(r.user[1], run[1])
             THEN [params |-> Some([user |-> r.user]), resp |-> "404:404.html",
                   calls |-> {"get_user", "get_run_by_id"},
                   catalog |-> cat, runs |-> rs]
             ELSE [params |-> Some(EditDraft(r.user, r.run_id, run[1])),
                   resp |-> "render:submit.html",
                   calls |-> {"get_user", "get_run_by_id", "get_categories"},
                   catalog |-> cat, runs |-> rs]
    ELSE [params |-> Some(NewDraft(r.user, get_last_run(rs, r.user[1].username))),
          resp |-> "render:submit.html",
          calls |-> {"get_user", "get_last_run", "get_categories"},
          catalog |-> cat, runs |-> rs]

\* ----------------------------------------------------------------- inputs

MaxCats == 2

MaxRuns == 1

NumProcs == 2

U1 == [username |-> "u1", is_mod |-> FALSE]

U2 == [username |-> "u2", is_mod |-> FALSE]

Mod == [username |-> "mod", is_mod |-> TRUE]

Users == {None, Some(U1), Some(U2), Some(Mod)}

\* "", "A", "a" and "c^"
GameInputs == {Empty, Str1("A"), Str1("a"), Str2("c", "^")}

\* "", "!", "B", "b", "D" and a name of 101 characters
CategoryInputs ==
    {Empty, Str1("!"), Str1("B"), Str1("b"), Str1("D"), Rep("c", NameMaxLen + 1)}

\* "59", "1:00", "01:01" and "x"
TimeInputs ==
    { << Field(59, 2) >>, << Field(1, 1), Field(0, 2) >>,
      << Field(1, 2), Field(1, 2) >>, << NotANumber >> }

\* "", "01/01/2020" and "13/01/2020"
DateInputs == { << >>, << 1, 1, 2020 >>, << 13, 1, 2020 >> }

NotesInputs == { Rep("n", NotesMaxLen), Rep("n", NotesMaxLen + 1) }

RunIdInputs == {None} \cup {Some(i) : i \in 1..MaxRuns}

PostRequests ==
    [method : {"POST"}, user : Users, run_id : RunIdInputs, game : GameInputs,
     category : CategoryInputs, time : TimeInputs, datestr : DateInputs,
     notes : NotesInputs, is_bkt : BOOLEAN]

GetRequests == [method : {"GET"}, user : Users, run_id : RunIdInputs]

\* the catalog's categories: no two of a game share a code
CatalogInfos ==
    {[category |-> Str1("B"), bk_seconds |-> None, bk_runner |-> None],
     [category |-> Str1("B"), bk_seconds |-> Some(60), bk_runner |-> Some("u1")],
     [category |-> Str1("D"), bk_seconds |-> Some(60), bk_runner |-> Some("u2")]}

InfoLists ==
    UNION {{l \in [1..n -> CatalogInfos] :
               \A i, j \in 1..n : i # j => get_code(l[i].category) # get_code(l[j].category)}
           : n \in 0..MaxCats}

Catalogs == {{}} \cup {{[code |-> Str1("a"), game |-> Str1("A"), info |-> l]} : l \in InfoLists}

StoredRun ==
    [username |-> "u1", game |-> Str1("A"), category |-> Str1("B"), seconds |-> 60,
     date |-> None, notes |-> Empty, is_bkt |-> TRUE]

RunStores == UNION {[1..n -> {StoredRun}] : n \in 0..MaxRuns}

\* ------------------------------------------------------------ one request

Init ==
    /\ catalog \in Catalogs
    /\ runs \in RunStores
    /\ req \in PostRequests \cup GetRequests
    /\ params = None
    /\ resp = "none"
    /\ calls = {}
    /\ pc = "pending"
    /\ prev = None
    /\ inflight = << >>

Serve(out) ==
    /\ params' = out.params
    /\ resp' = out.resp
    /\ calls' = out.calls
    /\ catalog' = out.catalog
    /\ runs' = out.runs
    /\ pc' = "done"

\* a GET of the submit page
Get ==
    /\ pc = "pending"
    /\ req.method = "GET"
    /\ Serve(GetOutcome(req, catalog, runs))
    /\ UNCHANGED <<req, prev, inflight>>

\* a POST of the submit form
Post ==
    /\ pc = "pending"
    /\ req.method = "POST"
    /\ Serve(PostOutcome(req, catalog, runs))
    /\ UNCHANGED <<req, prev, inflight>>

\* the form that submit.html rendered from a draft, posted back as it is
DraftRequest(r, p) ==
    [method |-> "POST", user |-> r.user, run_id |-> p.run_id, game |-> p.game,
     category |-> p.category, time |-> p.time, datestr |-> p.datestr,
     notes |-> p.notes, is_bkt |-> p.is_bkt]

\* the user hits submit again on the form a rejected POST returned
Resubmit ==
    /\ pc = "done"
    /\ req.method = "POST"
    /\ resp = "render:submit.html"
    /\ req' = DraftRequest(req, params[1])
    /\ prev' = params
    /\ Serve(PostOutcome(req', catalog, runs))
    /\ UNCHANGED inflight

Next == Get \/ Post \/ Resubmit

Spec == Init /\ [][Next]_vars

\* ------------------------------------------------------ concurrent POSTs

\* Two requests are served at once: each reads the game model (line 109),
\* then validates against what it read and calls the run store (line 221).

Procs == 1..NumProcs

\* POSTs of new runs of game "A", category "B": "58", "59" or "1:00"
ConcRequests ==
    [method : {"POST"}, user : {Some(U1), Some(U2)}, run_id : {None},
     game : {Str1("A")}, category : {Str1("B")},
     time : { << Field(58, 2) >>, << Field(59, 2) >>, << Field(1, 1), Field(0, 2) >> },
     datestr : { << >> }, notes : { Empty }, is_bkt : BOOLEAN]

ConcCatalog ==
    {[code |-> Str1("a"), game |-> Str1("A"),
      info |-> << [category |-> Str1("B"), bk_seconds |-> Some(60),
                   bk_runner |-> Some("mod")] >>]}

\* the best known time stored for the draft's game and category, if any
RecordInForce(cat, p) ==
    LET gm == get_game_model(cat, p.game_code)
        i  == IF gm = None THEN 0 ELSE FirstIndex(NamedAs(gm[1].info, p.category))
    IN  IF i = 0 THEN None ELSE gm[1].info[i].bk_seconds

InitConc ==
    /\ catalog = ConcCatalog
    /\ runs = << >>
    /\ inflight \in [Procs -> {[pc |-> "start", req |-> r, game_model |-> None,
                                params |-> None, resp |-> "none", inforce |-> None]
                               : r \in ConcRequests}]
    /\ req = None
    /\ params = None
    /\ resp = "none"
    /\ calls = {}
    /\ pc = "concurrent"
    /\ prev = None

\* src/submit.py:108-109: the request reads the game model
ConcLookup(i) ==
    /\ inflight[i].pc = "start"
    /\ inflight' = [inflight EXCEPT ![i].pc = "read",
                       ![i].game_model = get_game_model(catalog, get_code(inflight[i].req.game))]
    /\ UNCHANGED <<catalog, runs, req, params, resp, calls, pc, prev>>

\* src/submit.py:110-229: the request validates against the model it read and
\* calls the run store
ConcCommit(i) ==
    /\ inflight[i].pc = "read"
    /\ LET p == ValidateWith(inflight[i].req, inflight[i].game_model)
           s == Store(p, catalog, runs)
       IN  /\ inflight' = [inflight EXCEPT ![i].pc = "done", ![i].params = Some(p),
                              ![i].resp = Respond(s.out.success),
                              ![i].inforce = RecordInForce(catalog, p)]
           /\ catalog' = s.out.catalog
           /\ runs' = s.out.runs
    /\ UNCHANGED <<req, params, resp, calls, pc, prev>>

NextConc == \E i \in Procs : ConcLookup(i) \/ ConcCommit(i)

SpecConc == InitConc /\ [][NextConc]_vars

\* --------------------------------------------------------------- claims

\* the draft of the POST that was served
Served == pc = "done" /\ req.method = "POST" /\ params # None

\* C6: a submission flagged best known is accepted only if its seconds beat the
\* record in force at the moment it is persisted.
C6_SerializedBestKnown ==
    \A i \in DOMAIN inflight :
        (/\ inflight[i].pc = "done"
         /\ inflight[i].resp = "redirect:/runner"
         /\ inflight[i].params[1].is_bkt
         /\ inflight[i].inforce # None)
        => inflight[i].params[1].seconds < inflight[i].inforce[1]

\* the catalog's record of the draft's category, by display name, in the game
\* model the POST read: every index is named, the names of a list are distinct
Matches(p) ==
    IF p.game_model = None THEN {}
    ELSE {i \in 1..Len(p.game_model[1].info) :
             p.game_model[1].info[i].category = p.category}

Info(p, i) == p.game_model[1].info[i]

\* C1: a POST that claims best known against a category with a recorded best
\* known time bk, with parsed seconds s >= bk (s = bk included), is rejected
\* with the best-known-time error and the draft's is_bkt set to false.
C1_ClaimedNotBeating ==
    Served =>
        LET p == params[1]
        IN  \A i \in Matches(p) :
                (/\ Info(p, i).bk_seconds # None
                 /\ p.time_error = "none"
                 /\ req.is_bkt
                 /\ p.seconds >= Info(p, i).bk_seconds[1])
                => (~p.valid /\ p.bkt_error = "not_beat" /\ ~p.is_bkt)

\* a best-known claim with the recorded time exactly, rejected
C1_Witness ==
    /\ Served
    /\ req.is_bkt
    /\ \E i \in Matches(params[1]) :
           /\ Info(params[1], i).bk_seconds = Some(params[1].seconds)
           /\ params[1].bkt_error = "not_beat"

\* C2: a POST that does not claim best known against a category with recorded
\* best known time bk, with parsed seconds s < bk, is rejected with the
\* best-known-time error and the draft's is_bkt set to true; the draft posted
\* back as it is gets no best-known-time error.
C2_UnclaimedBeating ==
    /\ Served =>
        LET p == params[1]
        IN  \A i \in Matches(p) :
                (/\ Info(p, i).bk_seconds # None
                 /\ p.time_error = "none"
                 /\ ~req.is_bkt
                 /\ p.seconds < Info(p, i).bk_seconds[1])
                => (~p.valid /\ p.bkt_error = "beats" /\ p.is_bkt)
    /\ (Served /\ prev # None /\ prev[1].bkt_error = "beats" /\ prev[1].time_error = "none")
        => (req.is_bkt /\ params[1].bkt_error = "none")

\* the flipped draft posted back, accepted, and the record updated
C2_Witness ==
    /\ Served
    /\ prev # None
    /\ prev[1].bkt_error = "beats"
    /\ prev[1].time_error = "none"
    /\ resp = "redirect:/runner"
    /\ RecordInForce(catalog, params[1]) = Some(params[1].seconds)

\* no two games of the catalog share a code, no two categories of a game do
CatalogUnique ==
    /\ \A e, f \in catalog : e.code = f.code => e = f
    /\ \A e \in catalog : e.code = get_code(e.game)
    /\ \A e \in catalog : \A i, j \in 1..Len(e.info) :
           get_code(e.info[i].category) = get_code(e.info[j].category) => i = j

\* C3: a game, or a category of an existing game, whose code is that of a
\* catalog entry spelled otherwise is rejected with the collision error and the
\* canonical name in the draft; the draft posted back gets no collision error
\* for that field; the catalog never holds two entries of one code.
C3_Collision ==
    /\ Served =>
        LET p  == params[1]
            gm == p.game_model
        IN  /\ (p.game_code # Empty /\ gm # None /\ req.game # gm[1].game)
                => (~p.valid /\ p.game_error = "collision" /\ p.game = gm[1].game
                    /\ resp = "render:submit.html")
            /\ gm # None =>
                \A i \in 1..Len(gm[1].info) :
                    (/\ get_code(req.category) # Empty
                     /\ get_code(req.category) = get_code(gm[1].info[i].category)
                     /\ req.category # gm[1].info[i].category)
                    => (~p.valid /\ p.category_error = "collision"
                        /\ p.category = gm[1].info[i].category
                        /\ resp = "render:submit.html")
    /\ (Served /\ prev # None /\ prev[1].game_error = "collision")
        => params[1].game_error # "collision"
    /\ (Served /\ prev # None /\ prev[1].category_error = "collision")
        => params[1].category_error # "collision"
    /\ CatalogUnique

\* "a" and "b" posted against the catalog's "A" and "B", posted back and accepted
C3_Witness ==
    /\ Served
    /\ prev # None
    /\ prev[1].game_error = "collision"
    /\ prev[1].category_error = "collision"
    /\ req.game = Str1("A")
    /\ req.category = Str1("B")
    /\ resp = "redirect:/runner"

\* the request edits a stored run that its user neither owns nor moderates
ForeignEdit ==
    /\ pc = "done"
    /\ req.user # None
    /\ req.run_id # None
    /\ get_run_by_id(runs, req.run_id[1]) # None
    /\ ~MayEdit(req.user[1], get_run_by_id(runs, req.run_id[1])[1])

\* C4: an edit request, GET or POST, of a user who neither owns the run nor is
\* a moderator fails as not found (404) and leaves the stored run as it was.
C4_ForeignEditNotFound ==
    ForeignEdit =>
        (resp = "404:404.html" /\ get_run_by_id(runs, req.run_id[1]) = Some(StoredRun))

C7_ValidIffNoError ==
    Served =>
        LET p  == params[1]
            gm == p.game_model
        IN  /\ p.valid <=> (/\ p.game_error = "none"
                            /\ p.category_error = "none"
                            /\ p.time_error = "none"
                            /\ p.date_error = "none"
                            /\ p.bkt_error = "none"
                            /\ p.notes_error = "none")
            /\ p.notes_error # "none" <=> StrLen(req.notes) > NotesMaxLen
            /\ p.time_error # "none" <=> timestr_to_seconds(req.time).seconds = None
            /\ p.date_error # "none" <=> datestr_to_date(req.datestr).error # None
            /\ p.game_error # "none" <=>
                   \/ get_code(req.game) = Empty
                   \/ (gm # None /\ req.game # gm[1].game)
                   \/ ~valid_game_or_category(req.game)
            /\ p.category_error # "none" <=>
                   \/ get_code(req.category) = Empty
                   \/ (p.category_found /\ req.category # p.category)
                   \/ (~p.category_found /\ ~valid_game_or_category(req.category))

\* every field in error in one pass
C7_Witness ==
    /\ Served
    /\ params[1].game_error # "none"
    /\ params[1].category_error # "none"
    /\ params[1].time_error # "none"
    /\ params[1].date_error # "none"
    /\ params[1].notes_error # "none"
    /\ ~params[1].valid

\* C8: a POST whose category is empty, or normalizes to an empty code, carries
\* the blank-field error for the category.
C8_BlankCategory ==
    (Served /\ get_code(req.category) = Empty) => params[1].category_error = "blank"

\* C9: when the time does not parse, no best-known-time error is set and the
\* draft's is_bkt is the submitted flag.
C9_NoBktErrorWithoutTime ==
    (Served /\ timestr_to_seconds(req.time).seconds = None)
        => (params[1].bkt_error = "none" /\ params[1].is_bkt = req.is_bkt)

\* C10: a request without a user is redirected to "/" after get_user alone:
\* no lookup, no validation, no write; a run store call has a user.
C10_AnonymousRedirect ==
    [][/\ (pc' = "done" /\ req'.user = None)
           => (/\ resp' = "redirect:/"
               /\ calls' = {"get_user"}
               /\ params' = None
               /\ catalog' = catalog
               /\ runs' = runs)
       /\ (calls' \cap {"put_new_run", "put_existing_run"} # {})
           => (req'.user # None /\ "get_user" \in calls')]_vars

\* a POST without a user, redirected
C10_Witness ==
    /\ pc = "done"
    /\ req.method = "POST"
    /\ req.user = None
    /\ resp = "redirect:/"

====
